---- MODULE Spec2Model ----
(***************************************************************************)
(* SQLiteQ (goptics/sqliteq): a persistent FIFO / priority work queue on   *)
(* one SQLite table.  The model follows src/queue.go (Queue),              *)
(* src/unnamed/part_002 (PriorityQueue), src/unnamed/part_005 (registry),  *)
(* src/option.go and src/utils.go.                                         *)
(*                                                                         *)
(* One table name is modelled.  Every engine handle created from the       *)
(* registry shares the registry's *sql.DB and therefore the table.         *)
(*                                                                         *)
(* Storage behaviour the code relies on (SQLite in WAL mode, behind        *)
(* database/sql):                                                          *)
(*  - a committed transaction is atomic;                                   *)
(*  - ORDER BY created_at on the (status, created_at) index yields rows    *)
(*    of equal created_at in rowid order;                                  *)
(*  - AUTOINCREMENT ids are never reused, also after DELETE;               *)
(*  - `ack_id = ?` never matches a NULL ack_id;                            *)
(*  - a transaction that read a snapshot and then writes fails with BUSY   *)
(*    when another connection committed a change after the snapshot;       *)
(*  - a writer waits (busy handler) while another writer holds the lock.   *)
(***************************************************************************)
EXTENDS Integers, Sequences, FiniteSets, TLC

(* ------------------------------ bounds -------------------------------- *)
\* most rows the table holds at one time
MaxRows == 2
\* most rows ever inserted (AUTOINCREMENT high-water mark)
MaxId == 2
\* most tokens cuid.New() hands out
MaxToken == 2
\* largest wall-clock reading
MaxClock == 1
\* payloads are 1..MaxPayload
MaxPayload == 1
\* priorities are -MaxPrio..MaxPrio
MaxPrio == 1
\* a history counter stops counting here
CountCap == 2
\* a scripted FIFO run enqueues up to MaxRun items, of payloads 1..MaxRunPayload
MaxRun == 3
MaxRunPayload == 2
\* concurrent callers of one table
MaxProc == 2
\* the producer/consumer run moves up to MaxItems items
MaxItems == 2

(* --------------------------- program values --------------------------- *)
\* how often the redelivery scenario lets one item be claimed
MaxDeliver == 4

\* the longest table name quoteIdent is tried on
MaxNameLen == 3

\* ack_id TEXT UNIQUE: a row that was never claimed holds NULL
NullAckId == -1
\* the Go zero string "", also what a failed dequeue returns as ackID
EmptyAckId == 0
\* nil item of a failed dequeue
NilItem == 0

Payloads == 1..MaxPayload
Priorities == (0 - MaxPrio)..MaxPrio
Tokens == 1..MaxToken
Ids == 1..MaxId
\* what a caller can pass to Acknowledge: "", any cuid, or a string that is no cuid
GarbageToken == MaxToken + 1
AckArgs == (EmptyAckId..MaxToken) \cup {GarbageToken}
\* the two handles a caller holds: q from NewQueue, pq from NewPriorityQueue
EngineIds == {"q", "pq"}

VARIABLES
    dbOpen,     \* queues.client is open
    columns,    \* the table's column names in table_info order; <<>> = no table
    rows,       \* the table's rows, in id order
    seq,        \* AUTOINCREMENT: the largest id ever assigned
    clock,      \* time.Now().UTC()
    issued,     \* number of tokens cuid.New() has generated: they are 1..issued
    eng,        \* the engine handles: made, removeOnComplete, closed
    ret,        \* what the last call returned
    tokUse,     \* history: times each token was returned by DequeueWithAckId
    ackOk,      \* history: times Acknowledge(token) returned true
    taken,      \* history: ids returned by plain Dequeue
    again,      \* history: ids returned by a dequeue after plain Dequeue took them
    panicked,   \* the process died of a nil-pointer dereference
    procs,      \* concurrent callers: where each is in its transaction, and its locals
    lock,       \* the caller whose transaction holds SQLite's write lock, 0 = nobody
    got,        \* history: times each row was returned found=true by a concurrent dequeue
    run         \* a test run: its phase and what it put in and got out

dbVars == <<dbOpen, columns, rows, seq, clock, issued>>
histVars == <<tokUse, ackOk, taken, again>>
\* the variables only the concurrent and the scripted specifications change
scen == <<procs, lock, got, run>>
vars == <<dbOpen, columns, rows, seq, clock, issued, eng, ret, tokUse, ackOk, taken, again,
          panicked, procs, lock, got, run>>

(* ------------------------------ helpers ------------------------------- *)
Bump(n) == IF n < CountCap THEN n + 1 ELSE n

Range(s) == {s[i] : i \in 1..Len(s)}

HasColumn(c) == \E i \in 1..Len(columns) : columns[i] = c

\* what a call returned: ok, the item, the token; id is the row concerned (0 = none),
\* which only the store knows; n is Len's count, vals is Values' list
Ret(op, e, ok, data, ackID, id) ==
    [op |-> op, ok |-> ok, data |-> data, ackID |-> ackID, id |-> id,
     n |-> 0, vals |-> <<>>]

NoEngine == [made |-> FALSE, removeOnComplete |-> TRUE, closed |-> FALSE]

\* mutant: the closed flag is never looked at
IsClosedNever(handle) == FALSE

\* q.closed.Load()
IsClosed(handle) == handle.closed

(* ------------------------- the table (queue.go) ------------------------ *)
\* CREATE TABLE ... (id, data, status, ack_id, ack, created_at, updated_at)
BaseColumns == <<"id", "data", "status", "ack_id", "ack", "created_at", "updated_at">>

\* CREATE TABLE IF NOT EXISTS: an existing table keeps its columns
initTable(cols) == IF cols = <<>> THEN BaseColumns ELSE cols

\* mutant: the constructor runs no recovery pass
RequeueRowsNone(rs) == rs

\* mutant: the recovery UPDATE also sets created_at, to a time after every row's
RequeueRowsToBack(rs) ==
    [i \in 1..Len(rs) |->
        IF rs[i].status = "processing" /\ rs[i].ack = 0
        THEN [rs[i] EXCEPT !.status = "pending", !.created_at = MaxClock + 1]
        ELSE rs[i]]

\* mutant: the recovery UPDATE has WHERE status <> 'pending'
RequeueRowsAlsoCompleted(rs) ==
    [i \in 1..Len(rs) |->
        IF rs[i].status # "pending"
        THEN [rs[i] EXCEPT !.status = "pending"]
        ELSE rs[i]]

\* UPDATE .. SET status = 'pending' WHERE status = 'processing' AND ack = 0
RequeueRows(rs) ==
    [i \in 1..Len(rs) |->
        IF rs[i].status = "processing" /\ rs[i].ack = 0
        THEN [rs[i] EXCEPT !.status = "pending"]
        ELSE rs[i]]

\* INSERT INTO t (data, status, ack, created_at, updated_at): ack_id stays NULL,
\* a priority column (if the table has one) takes its DEFAULT 0
QueueInsert(rs, cols, id, item, now) ==
    LET base == [id |-> id, data |-> item, status |-> "pending", ack_id |-> NullAckId,
                 ack |-> 0, created_at |-> now]
        hasPrio == \E i \in 1..Len(cols) : cols[i] = "priority"
    IN Append(rs, IF hasPrio
                  THEN [f \in DOMAIN base \cup {"priority"} |->
                            IF f = "priority" THEN 0 ELSE base[f]]
                  ELSE base)

\* mutant: the priority argument is not bound, the column takes its DEFAULT 0
PriorityInsertDefault(rs, id, item, now, priority) ==
    Append(rs, [id |-> id, data |-> item, status |-> "pending", ack_id |-> NullAckId,
                ack |-> 0, created_at |-> now, priority |-> 0])

\* INSERT INTO t (data, status, created_at, updated_at, priority): ack takes DEFAULT 0
PriorityInsert(rs, id, item, now, priority) ==
    Append(rs, [id |-> id, data |-> item, status |-> "pending", ack_id |-> NullAckId,
                ack |-> 0, created_at |-> now, priority |-> priority])

\* mutant: ALTER TABLE ... ADD COLUMN priority INTEGER NOT NULL DEFAULT 1
AddPriorityColumnOne(rs) ==
    [i \in 1..Len(rs) |->
        [f \in DOMAIN rs[i] \cup {"priority"} |->
            IF f = "priority" THEN 1 ELSE rs[i][f]]]

\* ALTER TABLE t ADD COLUMN priority INTEGER NOT NULL DEFAULT 0
AddPriorityColumn(rs) ==
    [i \in 1..Len(rs) |->
        [f \in DOMAIN rs[i] \cup {"priority"} |->
            IF f = "priority" THEN 0 ELSE rs[i][f]]]

\* mutant: WHERE status <> 'completed', a claimed row is visible again
PendingIdxOrProcessing(rs) == {i \in 1..Len(rs) : rs[i].status # "completed"}

PendingIdx(rs) == {i \in 1..Len(rs) : rs[i].status = "pending"}

\* mutant: ORDER BY created_at DESC
CreatedBeforeDesc(a, b) ==
    \/ a.created_at > b.created_at
    \/ a.created_at = b.created_at /\ a.id > b.id

\* ORDER BY created_at ASC (rows of equal created_at come in rowid order)
CreatedBefore(a, b) ==
    \/ a.created_at < b.created_at
    \/ a.created_at = b.created_at /\ a.id < b.id

\* mutant: ORDER BY priority DESC, created_at ASC
PriorityBeforeDesc(a, b) ==
    \/ a.priority > b.priority
    \/ a.priority = b.priority /\ CreatedBefore(a, b)

\* ORDER BY priority ASC, created_at ASC
PriorityBefore(a, b) ==
    \/ a.priority < b.priority
    \/ a.priority = b.priority /\ CreatedBefore(a, b)

\* mutant: the wrong status in the filter, WHERE status = 'processing'
QueueSelectProcessing(rs) ==
    LET idx == {i \in 1..Len(rs) : rs[i].status = "processing"}
    IN IF idx = {} THEN 0
       ELSE CHOOSE i \in idx : \A j \in idx \ {i} : CreatedBefore(rs[i], rs[j])

\* mutant: a delivery limit of one, WHERE status = 'pending' AND ack_id IS NULL
QueueSelectUnclaimed(rs) ==
    LET idx == {i \in PendingIdx(rs) : rs[i].ack_id = NullAckId}
    IN IF idx = {} THEN 0
       ELSE CHOOSE i \in idx : \A j \in idx \ {i} : CreatedBefore(rs[i], rs[j])

\* mutant: SELECT .. ORDER BY created_at ASC LIMIT 1, whatever the status
QueueSelectAnyStatus(rs) ==
    IF rs = <<>> THEN 0
    ELSE CHOOSE i \in 1..Len(rs) :
            \A j \in (1..Len(rs)) \ {i} : CreatedBefore(rs[i], rs[j])

\* SELECT .. WHERE status = 'pending' ORDER BY created_at ASC LIMIT 1
\* the index of the row in rs, 0 for sql.ErrNoRows
QueueSelect(rs) ==
    IF PendingIdx(rs) = {} THEN 0
    ELSE CHOOSE i \in PendingIdx(rs) :
            \A j \in PendingIdx(rs) \ {i} : CreatedBefore(rs[i], rs[j])

\* SELECT .. WHERE status = 'pending' ORDER BY priority ASC, created_at ASC LIMIT 1
PrioritySelect(rs) ==
    IF PendingIdx(rs) = {} THEN 0
    ELSE CHOOSE i \in PendingIdx(rs) :
            \A j \in PendingIdx(rs) \ {i} : PriorityBefore(rs[i], rs[j])

\* mutant: DELETE FROM t WHERE id <= ?
DeleteUpToId(rs, id) == SelectSeq(rs, LAMBDA r : r.id > id)

\* mutant: the row is marked instead of deleted
DeleteByIdMarks(rs, id) ==
    [i \in 1..Len(rs) |->
        IF rs[i].id = id THEN [rs[i] EXCEPT !.status = "completed"] ELSE rs[i]]

\* DELETE FROM t WHERE id = ?
DeleteById(rs, id) == SelectSeq(rs, LAMBDA r : r.id # id)

\* mutant: the claiming UPDATE has no WHERE id = ? and no UNIQUE index stops it
ClaimByIdAllRows(rs, id, ackID) ==
    [i \in 1..Len(rs) |-> [rs[i] EXCEPT !.status = "processing", !.ack_id = ackID]]

\* mutant: the token is stored but the row stays pending
ClaimByIdKeepsPending(rs, id, ackID) ==
    [i \in 1..Len(rs) |->
        IF rs[i].id = id THEN [rs[i] EXCEPT !.ack_id = ackID] ELSE rs[i]]

\* UPDATE t SET status = 'processing', ack_id = ? WHERE id = ?
ClaimById(rs, id, ackID) ==
    [i \in 1..Len(rs) |->
        IF rs[i].id = id THEN [rs[i] EXCEPT !.status = "processing", !.ack_id = ackID]
        ELSE rs[i]]

\* mutant: a NULL ack_id compared as if it were the empty string
AckMatchesNullAsEmpty(rs, ackID) ==
    {i \in 1..Len(rs) :
        \/ rs[i].ack_id = ackID
        \/ rs[i].ack_id = NullAckId /\ ackID = EmptyAckId}

\* the rows `WHERE ack_id = ?` matches: NULL matches nothing
AckMatches(rs, ackID) == {i \in 1..Len(rs) : rs[i].ack_id # NullAckId /\ rs[i].ack_id = ackID}

\* rs without the rows at the indices in gone
Without(rs, gone) ==
    LET F[k \in 0..Len(rs)] ==
            IF k = 0 THEN <<>>
            ELSE IF k \in gone THEN F[k - 1] ELSE Append(F[k - 1], rs[k])
    IN F[Len(rs)]

\* DELETE FROM t WHERE ack_id = ?
AckDelete(rs, ackID) == Without(rs, AckMatches(rs, ackID))

\* mutant: the retention UPDATE also sets ack_id = NULL
AckCompleteClearsToken(rs, ackID) ==
    [i \in 1..Len(rs) |->
        IF i \in AckMatches(rs, ackID)
        THEN [rs[i] EXCEPT !.status = "completed", !.ack = 1, !.ack_id = NullAckId]
        ELSE rs[i]]

\* mutant: the retention UPDATE sets the status but not the ack flag
AckCompleteKeepsFlag(rs, ackID) ==
    [i \in 1..Len(rs) |->
        IF i \in AckMatches(rs, ackID)
        THEN [rs[i] EXCEPT !.status = "completed"]
        ELSE rs[i]]

\* UPDATE t SET status = 'completed', ack = 1 WHERE ack_id = ?
AckComplete(rs, ackID) ==
    [i \in 1..Len(rs) |->
        IF i \in AckMatches(rs, ackID)
        THEN [rs[i] EXCEPT !.status = "completed", !.ack = 1]
        ELSE rs[i]]

\* mutant: the option is ignored, the row is always deleted
AckExecAlwaysDelete(rs, ackID, removeOnComplete) == AckDelete(rs, ackID)

\* the statement Acknowledge executes, chosen by the handle's removeOnComplete
AckExec(rs, ackID, removeOnComplete) ==
    IF removeOnComplete THEN AckDelete(rs, ackID) ELSE AckComplete(rs, ackID)

\* the token DequeueWithAckId of a Queue stores: the row's own, else a new cuid
QueueAckId(stored, fresh) ==
    LET ackID == IF stored # NullAckId THEN stored ELSE EmptyAckId
    IN IF ackID = EmptyAckId THEN fresh ELSE ackID

\* mutant: the PriorityQueue keeps a stored token, as the Queue does
PriorityAckIdStored(stored, fresh) == QueueAckId(stored, fresh)

\* the token DequeueWithAckId of a PriorityQueue stores: always a new cuid
PriorityAckId(stored, fresh) == fresh

\* ack_id TEXT UNIQUE: the UPDATE fails when another row already holds the token
UniqueViolation(rs, id, ackID) ==
    \E i \in 1..Len(rs) : rs[i].id # id /\ rs[i].ack_id = ackID

\* initPriorityColumn's test `err != nil || name != "priority"`: Scan reads the FIRST
\* row of PRAGMA table_info only, so name is at most the first column's name (Scan
\* with nil destinations returns an error and leaves name empty)
NeedsPriorityColumn(cols) ==
    LET name == Head(cols) IN name # "priority"

(* ---------------------------- initial state ---------------------------- *)
\* after New(dbPath): the connection is open, nothing was created yet
Init ==
    /\ dbOpen = TRUE
    /\ columns = <<>>
    /\ rows = <<>>
    /\ seq = 0
    /\ clock = 0
    /\ issued = 0
    /\ eng = [e \in EngineIds |-> NoEngine]
    /\ ret = Ret("New", "q", TRUE, NilItem, EmptyAckId, 0)
    /\ tokUse = [t \in Tokens |-> 0]
    /\ ackOk = [t \in AckArgs |-> 0]
    /\ taken = {}
    /\ again = {}
    /\ panicked = FALSE
    /\ procs = <<>>
    /\ lock = 0
    /\ got = [i \in Ids |-> 0]
    /\ run = [phase |-> "off"]

Fail(op, e) == Ret(op, e, FALSE, NilItem, EmptyAckId, 0)

(* ---------------------------- options (option.go) --------------------- *)
\* an option list: each element is the argument of one WithRemoveOnComplete(remove)
OptionLists == {<<>>, <<TRUE>>, <<FALSE>>}

RECURSIVE ApplyOptions(_, _)
\* newQueue's loop `for _, opt := range opts { opt(q) }` over q.removeOnComplete
ApplyOptions(removeOnComplete, opts) ==
    IF opts = <<>> THEN removeOnComplete
    ELSE ApplyOptions(Head(opts), Tail(opts))

\* the Queue struct newQueue builds: removeOnComplete defaults to true
NewHandle(opts) ==
    [made |-> TRUE, removeOnComplete |-> ApplyOptions(TRUE, opts), closed |-> FALSE]

(* ------------------------- registry (part_005) ------------------------- *)
\* queues.NewQueue -> newQueue: initTable, on error db.Close(); RequeueNoAckRows.
\* nameOk = FALSE is a table name SQLite refuses (such as a reserved sqlite_ name).
NewQueue(opts, nameOk) ==
    /\ ~panicked
    /\ IF dbOpen /\ nameOk
       THEN /\ columns' = initTable(columns)
            /\ rows' = RequeueRows(rows)
            /\ eng' = [eng EXCEPT !["q"] = NewHandle(opts)]
            /\ ret' = Ret("NewQueue", "q", TRUE, NilItem, EmptyAckId, 0)
            /\ UNCHANGED dbOpen
       ELSE /\ dbOpen' = FALSE
            /\ ret' = Fail("NewQueue", "q")
            /\ UNCHANGED <<columns, rows, eng>>
    /\ UNCHANGED <<seq, clock, issued, tokUse, ackOk, taken, again, panicked>>

\* queues.NewPriorityQueue -> newPriorityQueue: newQueue, then initPriorityColumn
NewPriorityQueue(opts, nameOk) ==
    LET cols == initTable(columns)
        rs == RequeueRows(rows)
        handle == NewHandle(opts)
    IN
    /\ ~panicked
    /\ IF ~(dbOpen /\ nameOk)
       THEN \* newQueue failed in initTable and closed the connection
            /\ dbOpen' = FALSE
            /\ ret' = Fail("NewPriorityQueue", "pq")
            /\ UNCHANGED <<columns, rows, eng>>
       ELSE IF NeedsPriorityColumn(cols) /\ (\E i \in 1..Len(cols) : cols[i] = "priority")
       THEN \* ALTER TABLE fails: duplicate column name: priority
            /\ columns' = cols
            /\ rows' = rs
            /\ ret' = Fail("NewPriorityQueue", "pq")
            /\ UNCHANGED <<dbOpen, eng>>
       ELSE /\ columns' = IF NeedsPriorityColumn(cols) THEN Append(cols, "priority")
                          ELSE cols
            /\ rows' = IF NeedsPriorityColumn(cols) THEN AddPriorityColumn(rs) ELSE rs
            /\ eng' = [eng EXCEPT !["pq"] = handle]
            /\ ret' = Ret("NewPriorityQueue", "pq", TRUE, NilItem, EmptyAckId, 0)
            /\ UNCHANGED dbOpen
    /\ UNCHANGED <<seq, clock, issued, tokUse, ackOk, taken, again, panicked>>

\* queues.Close: closes the shared connection
RegistryClose ==
    /\ ~panicked
    /\ dbOpen
    /\ dbOpen' = FALSE
    /\ ret' = Ret("RegistryClose", "q", TRUE, NilItem, EmptyAckId, 0)
    /\ UNCHANGED <<columns, rows, seq, clock, issued, eng, tokUse, ackOk, taken, again,
                   panicked>>

(* ------------------------- Queue (queue.go) ---------------------------- *)
\* the history of a successful dequeue of row id that returned ackID
DequeueHistory(withAckId, id, ackID) ==
    /\ tokUse' = IF withAckId THEN [tokUse EXCEPT ![ackID] = Bump(@)] ELSE tokUse
    /\ taken' = IF withAckId THEN taken ELSE taken \cup {id}
    /\ again' = IF id \in taken THEN again \cup {id} ELSE again
    /\ UNCHANGED ackOk

\* Queue.Enqueue; now is what time.Now() reads: the clock has advanced or not
Enqueue(item, now) ==
    /\ ~panicked
    /\ eng["q"].made
    /\ IF IsClosed(eng["q"]) \/ ~dbOpen
       THEN /\ ret' = Fail("Enqueue", "q")
            /\ UNCHANGED <<rows, seq>>
       ELSE /\ rows' = QueueInsert(rows, columns, seq + 1, item, now)
            /\ seq' = seq + 1
            /\ ret' = Ret("Enqueue", "q", TRUE, item, EmptyAckId, seq + 1)
    /\ clock' = now
    /\ UNCHANGED <<dbOpen, columns, issued, eng, tokUse, ackOk, taken, again,
                   panicked>>

\* Queue.dequeueInternal: Dequeue is withAckId = FALSE, DequeueWithAckId is TRUE
dequeueInternal(withAckId) ==
    LET op == IF withAckId THEN "DequeueWithAckId" ELSE "Dequeue"
        i == QueueSelect(rows)
    IN
    /\ ~panicked
    /\ eng["q"].made
    /\ IF IsClosed(eng["q"]) \/ ~dbOpen \/ i = 0
       THEN /\ ret' = Fail(op, "q")
            /\ UNCHANGED <<rows, issued, tokUse, ackOk, taken, again>>
       ELSE LET row == rows[i]
                ackID == QueueAckId(row.ack_id, issued + 1)
                fresh == withAckId /\ ackID = issued + 1
            IN
            /\ fresh => issued < MaxToken
            /\ IF withAckId
               THEN IF UniqueViolation(rows, row.id, ackID)
                    THEN /\ ret' = Fail(op, "q")
                         /\ UNCHANGED <<rows, tokUse, ackOk, taken, again>>
                    ELSE /\ rows' = ClaimById(rows, row.id, ackID)
                         /\ ret' = Ret(op, "q", TRUE, row.data, ackID, row.id)
                         /\ DequeueHistory(TRUE, row.id, ackID)
               ELSE /\ rows' = DeleteById(rows, row.id)
                    /\ ret' = Ret(op, "q", TRUE, row.data,
                                  IF row.ack_id # NullAckId THEN row.ack_id
                                  ELSE EmptyAckId, row.id)
                    /\ DequeueHistory(FALSE, row.id, EmptyAckId)
            /\ issued' = IF fresh THEN issued + 1 ELSE issued
    /\ UNCHANGED <<dbOpen, columns, seq, clock, eng, panicked>>

\* Queue.Acknowledge, also reached through a PriorityQueue handle (embedded *Queue)
Acknowledge(e, ackID) ==
    /\ ~panicked
    /\ eng[e].made
    /\ IF ~dbOpen \/ AckMatches(rows, ackID) = {}
       THEN /\ ret' = Fail("Acknowledge", e)
            /\ UNCHANGED <<rows, ackOk>>
       ELSE /\ rows' = AckExec(rows, ackID, eng[e].removeOnComplete)
            /\ ret' = Ret("Acknowledge", e, TRUE, NilItem, ackID,
                          rows[CHOOSE i \in AckMatches(rows, ackID) : TRUE].id)
            /\ ackOk' = [ackOk EXCEPT ![ackID] = Bump(@)]
    /\ UNCHANGED <<dbOpen, columns, seq, clock, issued, eng, tokUse, taken, again,
                   panicked>>

\* Queue.RequeueNoAckRows called by the user: with the connection closed Begin
\* returns a nil *sql.Tx and tx.Exec dereferences it
RequeueNoAckRows(e) ==
    /\ ~panicked
    /\ eng[e].made
    /\ IF dbOpen
       THEN /\ rows' = RequeueRows(rows)
            /\ UNCHANGED panicked
       ELSE /\ panicked' = TRUE
            /\ UNCHANGED rows
    /\ ret' = Ret("RequeueNoAckRows", e, dbOpen, NilItem, EmptyAckId, 0)
    /\ UNCHANGED <<dbOpen, columns, seq, clock, issued, eng, tokUse, ackOk, taken, again>>

\* mutant: Purge tests the closed flag as Enqueue does
PurgeGuarded(e) ==
    /\ ~panicked
    /\ eng[e].made
    /\ rows' = IF dbOpen /\ ~eng[e].closed THEN <<>> ELSE rows
    /\ ret' = Ret("Purge", e, dbOpen /\ ~eng[e].closed, NilItem, EmptyAckId, 0)
    /\ UNCHANGED <<dbOpen, columns, seq, clock, issued, eng, tokUse, ackOk, taken, again,
                   panicked>>

\* mutant: DELETE FROM t WHERE status = 'pending'
PurgePending(rs) == SelectSeq(rs, LAMBDA r : r.status # "pending")

\* DELETE FROM t
PurgeRows(rs) == <<>>

\* Queue.Purge
Purge(e) ==
    /\ ~panicked
    /\ eng[e].made
    /\ rows' = IF dbOpen THEN PurgeRows(rows) ELSE rows
    /\ ret' = Ret("Purge", e, dbOpen, NilItem, EmptyAckId, 0)
    /\ UNCHANGED <<dbOpen, columns, seq, clock, issued, eng, tokUse, ackOk, taken, again,
                   panicked>>

\* mutant: Close also closes the registry's connection
CloseConnection(e) ==
    /\ ~panicked
    /\ eng[e].made
    /\ eng' = [eng EXCEPT ![e].closed = TRUE]
    /\ dbOpen' = FALSE
    /\ ret' = Ret("Close", e, TRUE, NilItem, EmptyAckId, 0)
    /\ UNCHANGED <<columns, rows, seq, clock, issued, tokUse, ackOk, taken, again,
                   panicked>>

\* Queue.Close: sets the handle's closed flag, nothing else
Close(e) ==
    /\ ~panicked
    /\ eng[e].made
    /\ eng' = [eng EXCEPT ![e].closed = TRUE]
    /\ ret' = Ret("Close", e, TRUE, NilItem, EmptyAckId, 0)
    /\ UNCHANGED <<dbOpen, columns, rows, seq, clock, issued, tokUse, ackOk, taken, again,
                   panicked>>

\* mutant: SELECT COUNT(*) FROM t
LenOfAllRows(rs) == Len(rs)

\* SELECT COUNT(*) FROM t WHERE status = 'pending'; 0 when the query fails
LenOf(rs) == Cardinality(PendingIdx(rs))

\* Queue.Len
QLen(e) ==
    /\ ~panicked
    /\ eng[e].made
    /\ ret' = [Ret("Len", e, dbOpen, NilItem, EmptyAckId, 0) EXCEPT
                  !.n = IF dbOpen THEN LenOf(rows) ELSE 0]
    /\ UNCHANGED <<dbOpen, columns, rows, seq, clock, issued, eng, tokUse, ackOk, taken,
                   again, panicked>>

\* the row (by index) that ORDER BY created_at ASC puts k-th among the indices in idx
RECURSIVE CreatedOrder(_, _)
CreatedOrder(rs, idx) ==
    IF idx = {} THEN <<>>
    ELSE LET i == CHOOSE a \in idx : \A b \in idx \ {a} : CreatedBefore(rs[a], rs[b])
         IN <<i>> \o CreatedOrder(rs, idx \ {i})

\* SELECT data FROM t WHERE status = 'pending' ORDER BY created_at ASC
ValuesOf(rs) ==
    LET ord == CreatedOrder(rs, PendingIdx(rs))
    IN [k \in 1..Len(ord) |-> rs[ord[k]].data]

\* Queue.Values, also what a PriorityQueue handle's Values is (embedded *Queue);
\* nil when the query fails
Values(e) ==
    /\ ~panicked
    /\ eng[e].made
    /\ ret' = [Ret("Values", e, dbOpen, NilItem, EmptyAckId, 0) EXCEPT
                  !.vals = IF dbOpen THEN ValuesOf(rows) ELSE <<>>]
    /\ UNCHANGED <<dbOpen, columns, rows, seq, clock, issued, eng, tokUse, ackOk, taken,
                   again, panicked>>

(* -------------------- PriorityQueue (part_002) ------------------------- *)
\* PriorityQueue.Enqueue
PriorityEnqueue(item, priority, now) ==
    /\ ~panicked
    /\ eng["pq"].made
    /\ IF IsClosed(eng["pq"]) \/ ~dbOpen \/ ~HasColumn("priority")
       THEN /\ ret' = Fail("Enqueue", "pq")
            /\ UNCHANGED <<rows, seq>>
       ELSE /\ rows' = PriorityInsert(rows, seq + 1, item, now, priority)
            /\ seq' = seq + 1
            /\ ret' = Ret("Enqueue", "pq", TRUE, item, EmptyAckId, seq + 1)
    /\ clock' = now
    /\ UNCHANGED <<dbOpen, columns, issued, eng, tokUse, ackOk, taken, again,
                   panicked>>

\* PriorityQueue.dequeueInternal
PriorityDequeueInternal(withAckId) ==
    LET op == IF withAckId THEN "DequeueWithAckId" ELSE "Dequeue"
        i == IF HasColumn("priority") THEN PrioritySelect(rows) ELSE 0
    IN
    /\ ~panicked
    /\ eng["pq"].made
    /\ IF IsClosed(eng["pq"]) \/ ~dbOpen \/ i = 0
       THEN /\ ret' = Fail(op, "pq")
            /\ UNCHANGED <<rows, issued, tokUse, ackOk, taken, again>>
       ELSE LET row == rows[i]
                ackID == PriorityAckId(row.ack_id, issued + 1)
            IN
            /\ withAckId => issued < MaxToken
            /\ IF withAckId
               THEN IF UniqueViolation(rows, row.id, ackID)
                    THEN /\ ret' = Fail(op, "pq")
                         /\ UNCHANGED <<rows, tokUse, ackOk, taken, again>>
                    ELSE /\ rows' = ClaimById(rows, row.id, ackID)
                         /\ ret' = Ret(op, "pq", TRUE, row.data, ackID, row.id)
                         /\ DequeueHistory(TRUE, row.id, ackID)
               ELSE /\ rows' = DeleteById(rows, row.id)
                    /\ ret' = Ret(op, "pq", TRUE, row.data, EmptyAckId, row.id)
                    /\ DequeueHistory(FALSE, row.id, EmptyAckId)
            /\ issued' = IF withAckId THEN issued + 1 ELSE issued
    /\ UNCHANGED <<dbOpen, columns, seq, clock, eng, panicked>>

(* --------------------------- specification ----------------------------- *)
\* the readings time.Now() can give next: the wall clock does not run backwards
Nows == {t \in {clock, clock + 1} : t <= MaxClock}

\* the bounds on the table's size and on the ids handed out
CanInsert == Len(rows) < MaxRows /\ seq < MaxId

\* a sequential call leaves the concurrent callers and the test scripts alone
Quiet == UNCHANGED scen

\* The calls on an open registry through handles that were not closed, one at a time.
Next ==
    \/ \E o \in OptionLists : NewQueue(o, TRUE) /\ Quiet
    \/ \E o \in OptionLists : NewPriorityQueue(o, TRUE) /\ Quiet
    \/ \E d \in Payloads, now \in Nows : CanInsert /\ Enqueue(d, now) /\ Quiet
    \/ \E w \in BOOLEAN : dequeueInternal(w) /\ Quiet
    \/ \E e \in EngineIds, t \in AckArgs : Acknowledge(e, t) /\ Quiet
    \/ \E e \in EngineIds : RequeueNoAckRows(e) /\ Quiet
    \/ \E e \in EngineIds : Purge(e) /\ Quiet
    \/ \E e \in EngineIds : QLen(e) /\ Quiet
    \/ \E e \in EngineIds : Values(e) /\ Quiet
    \/ \E d \in Payloads, p \in Priorities, now \in Nows :
            CanInsert /\ PriorityEnqueue(d, p, now) /\ Quiet
    \/ \E w \in BOOLEAN : PriorityDequeueInternal(w) /\ Quiet

Spec == Init /\ [][Next]_vars

TypeOK ==
    /\ dbOpen \in BOOLEAN
    /\ seq \in 0..MaxId
    /\ Len(rows) <= MaxRows
    /\ issued \in 0..MaxToken
    /\ \A i \in 1..Len(rows) : rows[i].status \in {"pending", "processing", "completed"}

(* --------- the whole life of a registry: closes and failed setups ------ *)
\* As Next, with the handles' Close, the registry's Close and creations under a
\* table name SQLite refuses; the clock stands still and every priority is 0.
NextLife ==
    \/ \E o \in OptionLists, nameOk \in BOOLEAN : NewQueue(o, nameOk) /\ Quiet
    \/ \E o \in OptionLists, nameOk \in BOOLEAN : NewPriorityQueue(o, nameOk) /\ Quiet
    \/ RegistryClose /\ Quiet
    \/ \E e \in EngineIds : Close(e) /\ Quiet
    \/ \E d \in Payloads : CanInsert /\ Enqueue(d, clock) /\ Quiet
    \/ \E w \in BOOLEAN : dequeueInternal(w) /\ Quiet
    \/ \E e \in EngineIds, t \in AckArgs : Acknowledge(e, t) /\ Quiet
    \/ \E e \in EngineIds : RequeueNoAckRows(e) /\ Quiet
    \/ \E e \in EngineIds : Purge(e) /\ Quiet
    \/ \E e \in EngineIds : QLen(e) /\ Quiet
    \/ \E e \in EngineIds : Values(e) /\ Quiet
    \/ \E d \in Payloads : CanInsert /\ PriorityEnqueue(d, 0, clock) /\ Quiet
    \/ \E w \in BOOLEAN : PriorityDequeueInternal(w) /\ Quiet

SpecLife == Init /\ [][NextLife]_vars

(* ------------------- a scripted FIFO run (TestSQLiteQueue) -------------- *)
RunPayloads == 1..MaxRunPayload

\* a fresh queue from NewQueue, empty; the run will enqueue n items, then dequeue n
InitFifo ==
    /\ dbOpen = TRUE
    /\ columns \in {BaseColumns, Append(BaseColumns, "priority")}
    /\ rows = <<>>
    /\ seq = 0
    /\ clock = 0
    /\ issued = 0
    /\ \E o \in OptionLists : eng = [e \in EngineIds |-> IF e = "q" THEN NewHandle(o)
                                                       ELSE NoEngine]
    /\ ret = Ret("NewQueue", "q", TRUE, NilItem, EmptyAckId, 0)
    /\ tokUse = [t \in Tokens |-> 0]
    /\ ackOk = [t \in AckArgs |-> 0]
    /\ taken = {}
    /\ again = {}
    /\ panicked = FALSE
    /\ procs = <<>>
    /\ lock = 0
    /\ got = [i \in Ids |-> 0]
    /\ \E n \in 0..MaxRun : run = [phase |-> "enqueue", n |-> n, ins |-> <<>>,
                                   outs |-> <<>>, found |-> <<>>]

\* the run's next Enqueue
FifoEnqueue(item, now) ==
    /\ run.phase = "enqueue"
    /\ Len(run.ins) < run.n
    /\ Enqueue(item, now)
    /\ run' = [run EXCEPT !.ins = IF ret'.ok THEN Append(@, item) ELSE @]
    /\ UNCHANGED <<procs, lock, got>>

\* all n items are in: the run turns to dequeuing
FifoTurn ==
    /\ run.phase = "enqueue"
    /\ Len(run.ins) = run.n
    /\ run' = [run EXCEPT !.phase = "dequeue"]
    /\ UNCHANGED <<dbOpen, columns, rows, seq, clock, issued, eng, ret, tokUse, ackOk,
                   taken, again, panicked, procs, lock, got>>

\* the run's next Dequeue
FifoDequeue ==
    /\ run.phase = "dequeue"
    /\ Len(run.outs) < run.n
    /\ dequeueInternal(FALSE)
    /\ run' = [run EXCEPT !.outs = Append(@, ret'.data), !.found = Append(@, ret'.ok)]
    /\ UNCHANGED <<procs, lock, got>>

NextFifo ==
    \/ \E d \in RunPayloads, now \in Nows : FifoEnqueue(d, now)
    \/ FifoTurn
    \/ FifoDequeue

SpecFifo == InitFifo /\ [][NextFifo]_vars

(* ------------- Values, then a run of Dequeue calls --------------------- *)
\* a fresh engine of the given kind; the run enqueues, may claim rows with
\* DequeueWithAckId, calls Values once and then dequeues what Values listed
InitValues ==
    /\ dbOpen = TRUE
    /\ rows = <<>>
    /\ seq = 0
    /\ clock = 0
    /\ issued = 0
    /\ \E e \in EngineIds :
         /\ columns = IF e = "pq" THEN Append(BaseColumns, "priority") ELSE BaseColumns
         /\ eng = [x \in EngineIds |-> IF x = e THEN NewHandle(<<>>) ELSE NoEngine]
         /\ ret = Ret(IF e = "pq" THEN "NewPriorityQueue" ELSE "NewQueue", e, TRUE,
                      NilItem, EmptyAckId, 0)
         /\ run = [phase |-> "enqueue", kind |-> e, vals |-> <<>>, outs |-> <<>>,
                   found |-> <<>>]
    /\ tokUse = [t \in Tokens |-> 0]
    /\ ackOk = [t \in AckArgs |-> 0]
    /\ taken = {}
    /\ again = {}
    /\ panicked = FALSE
    /\ procs = <<>>
    /\ lock = 0
    /\ got = [i \in Ids |-> 0]

ValuesEnqueue(item, priority, now) ==
    /\ run.phase = "enqueue"
    /\ seq < MaxRun
    /\ IF run.kind = "pq" THEN PriorityEnqueue(item, priority, now)
       ELSE priority = 0 /\ Enqueue(item, now)
    /\ UNCHANGED scen

ValuesClaim ==
    /\ run.phase = "enqueue"
    /\ IF run.kind = "pq" THEN PriorityDequeueInternal(TRUE) ELSE dequeueInternal(TRUE)
    /\ UNCHANGED scen

ValuesCall ==
    /\ run.phase = "enqueue"
    /\ Values(run.kind)
    /\ run' = [run EXCEPT !.phase = "dequeue", !.vals = ret'.vals]
    /\ UNCHANGED <<procs, lock, got>>

ValuesDequeue ==
    /\ run.phase = "dequeue"
    /\ Len(run.outs) < Len(run.vals)
    /\ IF run.kind = "pq" THEN PriorityDequeueInternal(FALSE) ELSE dequeueInternal(FALSE)
    /\ run' = [run EXCEPT !.outs = Append(@, ret'.data), !.found = Append(@, ret'.ok)]
    /\ UNCHANGED <<procs, lock, got>>

NextValues ==
    \/ \E d \in RunPayloads, p \in Priorities, now \in Nows : ValuesEnqueue(d, p, now)
    \/ ValuesClaim
    \/ ValuesCall
    \/ ValuesDequeue

SpecValues == InitValues /\ [][NextValues]_vars

(* --------- concurrent callers: one transaction per call (WAL) ---------- *)
\* database/sql gives every transaction its own connection. In WAL mode a read sees
\* the last committed table; the write lock is taken by a transaction's first write
\* and held until it commits or rolls back; a commit makes every snapshot read
\* before it stale.
ProcIds == 1..MaxProc

Idle == [pc |-> "idle", withAckId |-> FALSE, id |-> 0, data |-> NilItem,
         ackID |-> NullAckId, stale |-> FALSE, now |-> 0]

\* the commit of p: the lock is released, the snapshots of the others are stale
Committed(p) ==
    [q \in DOMAIN procs |->
        IF q = p THEN Idle
        ELSE IF procs[q].pc = "selected" THEN [procs[q] EXCEPT !.stale = TRUE]
        ELSE procs[q]]

\* mutant: a write after a read succeeds although the snapshot is stale
SnapshotNeverBusy(holder, stale) == holder # 0

\* tx.Exec in a transaction that has read: SQLITE_BUSY at once when another
\* connection holds the write lock or has committed since the read
SnapshotBusy(holder, stale) == holder # 0 \/ stale

\* dequeueInternal up to row.Scan: Begin, SELECT ... LIMIT 1 on the committed table
TxSelect(p, withAckId) ==
    LET op == IF withAckId THEN "DequeueWithAckId" ELSE "Dequeue"
        i == QueueSelect(rows)
    IN
    /\ procs[p].pc = "idle"
    /\ eng["q"].made /\ ~IsClosed(eng["q"]) /\ dbOpen
    /\ IF i = 0
       THEN /\ ret' = Fail(op, "q")
            /\ UNCHANGED procs
       ELSE /\ procs' = [procs EXCEPT ![p] =
                           [Idle EXCEPT !.pc = "selected", !.withAckId = withAckId,
                                        !.id = rows[i].id, !.data = rows[i].data,
                                        !.ackID = rows[i].ack_id]]
            /\ UNCHANGED ret
    /\ UNCHANGED <<dbOpen, columns, rows, seq, clock, issued, eng, tokUse, ackOk, taken,
                   again, panicked, lock, got>>

\* dequeueInternal's tx.Exec (UPDATE or DELETE): on an error the call returns
\* found = false and rolls back; otherwise the write lock is held. A cuid drawn by a
\* call that fails here is never stored or returned, so the draw is counted only
\* when the Exec succeeds.
TxExec(p) ==
    LET me == procs[p]
        op == IF me.withAckId THEN "DequeueWithAckId" ELSE "Dequeue"
        ackID == QueueAckId(me.ackID, issued + 1)
        fresh == me.withAckId /\ ackID = issued + 1
    IN
    /\ me.pc = "selected"
    /\ IF \/ SnapshotBusy(lock, me.stale)
          \/ me.withAckId /\ UniqueViolation(rows, me.id, ackID)
       THEN /\ ret' = Fail(op, "q")
            /\ procs' = [procs EXCEPT ![p] = Idle]
            /\ UNCHANGED <<lock, issued>>
       ELSE /\ fresh => issued < MaxToken
            /\ lock' = p
            /\ procs' = [procs EXCEPT ![p] =
                           [me EXCEPT !.pc = "written",
                                      !.ackID = IF me.withAckId THEN ackID ELSE @]]
            /\ issued' = IF fresh THEN issued + 1 ELSE issued
            /\ UNCHANGED ret
    /\ UNCHANGED <<dbOpen, columns, rows, seq, clock, eng, tokUse, ackOk, taken, again,
                   panicked, got>>

\* dequeueInternal's tx.Commit and return: the write reaches the table
TxCommit(p) ==
    LET me == procs[p]
        op == IF me.withAckId THEN "DequeueWithAckId" ELSE "Dequeue"
    IN
    /\ me.pc = "written"
    /\ rows' = IF me.withAckId THEN ClaimById(rows, me.id, me.ackID)
               ELSE DeleteById(rows, me.id)
    /\ ret' = Ret(op, "q", TRUE, me.data,
                  IF me.ackID # NullAckId THEN me.ackID ELSE EmptyAckId, me.id)
    /\ DequeueHistory(me.withAckId, me.id, me.ackID)
    /\ got' = [got EXCEPT ![me.id] = Bump(@)]
    /\ lock' = 0
    /\ procs' = Committed(p)
    /\ UNCHANGED <<dbOpen, columns, seq, clock, issued, eng, panicked>>

\* Enqueue up to tx.Exec: time.Now(), Begin, INSERT. The transaction has read nothing,
\* so it waits for the write lock (the busy handler) instead of failing.
TxInsert(p, item, now) ==
    /\ procs[p].pc = "idle"
    /\ eng["q"].made /\ ~IsClosed(eng["q"]) /\ dbOpen
    /\ lock = 0
    /\ lock' = p
    /\ procs' = [procs EXCEPT ![p] = [Idle EXCEPT !.pc = "inserted", !.data = item,
                                                  !.now = now]]
    /\ clock' = now
    /\ UNCHANGED <<dbOpen, columns, rows, seq, issued, eng, ret, tokUse, ackOk, taken,
                   again, panicked, got>>

\* Enqueue's tx.Commit and return
TxInsertCommit(p) ==
    LET me == procs[p] IN
    /\ me.pc = "inserted"
    /\ rows' = QueueInsert(rows, columns, seq + 1, me.data, me.now)
    /\ seq' = seq + 1
    /\ ret' = Ret("Enqueue", "q", TRUE, me.data, EmptyAckId, seq + 1)
    /\ lock' = 0
    /\ procs' = Committed(p)
    /\ UNCHANGED <<dbOpen, columns, clock, issued, eng, tokUse, ackOk, taken, again,
                   panicked, got>>

\* a table from NewQueue, empty, its callers about to start
InitConc ==
    /\ dbOpen = TRUE
    /\ columns = BaseColumns
    /\ rows = <<>>
    /\ seq = 0
    /\ clock = 0
    /\ issued = 0
    /\ eng = [e \in EngineIds |-> IF e = "q" THEN NewHandle(<<>>) ELSE NoEngine]
    /\ ret = Ret("NewQueue", "q", TRUE, NilItem, EmptyAckId, 0)
    /\ tokUse = [t \in Tokens |-> 0]
    /\ ackOk = [t \in AckArgs |-> 0]
    /\ taken = {}
    /\ again = {}
    /\ panicked = FALSE
    /\ procs = [p \in ProcIds |-> Idle]
    /\ lock = 0
    /\ got = [i \in Ids |-> 0]
    /\ run = [phase |-> "off"]

NextConc ==
    \/ \E p \in ProcIds, w \in BOOLEAN : TxSelect(p, w) /\ UNCHANGED run
    \/ \E p \in ProcIds : TxExec(p) /\ UNCHANGED run
    \/ \E p \in ProcIds : TxCommit(p) /\ UNCHANGED run
    \/ \E p \in ProcIds, d \in Payloads, now \in Nows :
          CanInsert /\ TxInsert(p, d, now) /\ UNCHANGED run
    \/ \E p \in ProcIds : TxInsertCommit(p) /\ UNCHANGED run

SpecConc == InitConc /\ [][NextConc]_vars

(* ------ one producer, one consumer (TestConcurrentOperations) ---------- *)
Producer == 1
Consumer == 2

\* NewQueue with no option; the producer will enqueue n items while the consumer
\* loops on DequeueWithAckId until it has n tokens
InitPC ==
    /\ dbOpen = TRUE
    /\ columns = BaseColumns
    /\ rows = <<>>
    /\ seq = 0
    /\ clock = 0
    /\ issued = 0
    /\ eng = [e \in EngineIds |-> IF e = "q" THEN NewHandle(<<>>) ELSE NoEngine]
    /\ ret = Ret("NewQueue", "q", TRUE, NilItem, EmptyAckId, 0)
    /\ tokUse = [t \in Tokens |-> 0]
    /\ ackOk = [t \in AckArgs |-> 0]
    /\ taken = {}
    /\ again = {}
    /\ panicked = FALSE
    /\ procs = [p \in {Producer, Consumer} |-> Idle]
    /\ lock = 0
    /\ got = [i \in Ids |-> 0]
    /\ \E n \in 1..MaxItems :
         run = [phase |-> "race", n |-> n, started |-> 0, sent |-> 0, sentOk |-> TRUE,
                ackIDs |-> <<>>, ids |-> <<>>, missed |-> FALSE, acked |-> 0,
                ackedOk |-> TRUE, len |-> 0]

\* the producer goroutine: `for i := 0; i < numItems; i++ { q.Enqueue(itemData) }`
PCInsert(item, now) ==
    /\ run.phase = "race"
    /\ run.started < run.n
    /\ TxInsert(Producer, item, now)
    /\ run' = [run EXCEPT !.started = @ + 1]

PCInsertCommit ==
    /\ run.phase = "race"
    /\ TxInsertCommit(Producer)
    /\ run' = [run EXCEPT !.sent = @ + 1, !.sentOk = @ /\ ret'.ok]

\* the consumer goroutine: `for processed < numItems { q.DequeueWithAckId() ... }`
PCSelect ==
    /\ run.phase = "race"
    /\ Len(run.ackIDs) < run.n
    /\ TxSelect(Consumer, TRUE)
    /\ UNCHANGED run

PCExec ==
    /\ run.phase = "race"
    /\ TxExec(Consumer)
    /\ run' = [run EXCEPT !.missed = @ \/ procs'[Consumer].pc = "idle"]

PCCommit ==
    /\ run.phase = "race"
    /\ TxCommit(Consumer)
    /\ run' = [run EXCEPT !.ackIDs = Append(@, ret'.ackID), !.ids = Append(@, ret'.id)]

\* `<-done; <-done`: both goroutines are through
PCJoin ==
    /\ run.phase = "race"
    /\ run.sent = run.n
    /\ Len(run.ackIDs) = run.n
    /\ run' = [run EXCEPT !.phase = "ack"]
    /\ UNCHANGED <<dbOpen, columns, rows, seq, clock, issued, eng, ret, tokUse, ackOk,
                   taken, again, panicked, procs, lock, got>>

\* `for _, ackID := range ackIDs { q.Acknowledge(ackID) }`
PCAcknowledge ==
    /\ run.phase = "ack"
    /\ run.acked < run.n
    /\ Acknowledge("q", run.ackIDs[run.acked + 1])
    /\ run' = [run EXCEPT !.acked = @ + 1, !.ackedOk = @ /\ ret'.ok]
    /\ UNCHANGED <<procs, lock, got>>

\* `q.Len()` at the end
PCLen ==
    /\ run.phase = "ack"
    /\ run.acked = run.n
    /\ QLen("q")
    /\ run' = [run EXCEPT !.phase = "done", !.len = ret'.n]
    /\ UNCHANGED <<procs, lock, got>>

ProducerNext == (\E d \in Payloads, now \in Nows : PCInsert(d, now)) \/ PCInsertCommit

ConsumerNext == PCSelect \/ PCExec \/ PCCommit

MainNext == PCJoin \/ PCAcknowledge \/ PCLen

NextPC ==
    \/ \E d \in Payloads, now \in Nows : PCInsert(d, now)
    \/ PCInsertCommit
    \/ PCSelect
    \/ PCExec
    \/ PCCommit
    \/ PCJoin
    \/ PCAcknowledge
    \/ PCLen

\* the Go scheduler runs every runnable goroutine
SpecPC ==
    /\ InitPC /\ [][NextPC]_vars
    /\ WF_vars(ProducerNext) /\ WF_vars(ConsumerNext) /\ WF_vars(MainNext)

(* ------------------------------ claims --------------------------------- *)
(* ---- claim, restart, claim again: no Acknowledge is ever called ---- *)
\* run.count[id] is the number of times DequeueWithAckId has returned row id
InitRedeliver ==
    /\ dbOpen = TRUE
    /\ columns = <<>>
    /\ rows = <<>>
    /\ seq = 0
    /\ clock = 0
    /\ issued = 0
    /\ eng = [e \in EngineIds |-> NoEngine]
    /\ ret = Ret("New", "q", TRUE, NilItem, EmptyAckId, 0)
    /\ tokUse = [t \in Tokens |-> 0]
    /\ ackOk = [t \in AckArgs |-> 0]
    /\ taken = {}
    /\ again = {}
    /\ panicked = FALSE
    /\ procs = <<>>
    /\ lock = 0
    /\ got = [i \in Ids |-> 0]
    /\ run = [phase |-> "redeliver", count |-> [i \in Ids |-> 0]]

\* the process starts, or starts again: NewQueue on the same table
RedeliverNewQueue(opts) ==
    /\ NewQueue(opts, TRUE)
    /\ UNCHANGED scen

RedeliverEnqueue(item, now) ==
    /\ CanInsert
    /\ Enqueue(item, now)
    /\ UNCHANGED scen

\* DequeueWithAckId; the worker never acknowledges what it gets
RedeliverClaim ==
    /\ \A i \in PendingIdx(rows) : run.count[rows[i].id] < MaxDeliver
    /\ dequeueInternal(TRUE)
    /\ run' = [run EXCEPT !.count =
                  IF ret'.ok THEN [@ EXCEPT ![ret'.id] = @ + 1] ELSE @]
    /\ UNCHANGED <<procs, lock, got>>

NextRedeliver ==
    \/ \E o \in OptionLists : RedeliverNewQueue(o)
    \/ \E d \in Payloads, now \in Nows : RedeliverEnqueue(d, now)
    \/ RedeliverClaim

SpecRedeliver == InitRedeliver /\ [][NextRedeliver]_vars

(* ---- producers on open and closed handles, with workers claiming ---- *)
NextEnqueue ==
    \/ \E o \in OptionLists : NewQueue(o, TRUE) /\ Quiet
    \/ \E o \in OptionLists : NewPriorityQueue(o, TRUE) /\ Quiet
    \/ RegistryClose /\ Quiet
    \/ \E e \in EngineIds : Close(e) /\ Quiet
    \/ \E d \in Payloads, now \in Nows : CanInsert /\ Enqueue(d, now) /\ Quiet
    \/ \E d \in Payloads, p \in Priorities, now \in Nows :
          CanInsert /\ PriorityEnqueue(d, p, now) /\ Quiet
    \/ dequeueInternal(TRUE) /\ Quiet
    \/ PriorityDequeueInternal(TRUE) /\ Quiet

SpecEnqueue == Init /\ [][NextEnqueue]_vars

(* ------------------------- quoteIdent (utils.go) ----------------------- *)
\* a name is a sequence of characters: the double quote and two others
DQ == "\""

Chars == {"a", "_", DQ}

Names == UNION {[1..n -> Chars] : n \in 0..MaxNameLen}

\* mutant: strings.Replace(name, `"`, `""`, 1), only the first quote is doubled
RECURSIVE ReplaceFirst(_, _, _)
ReplaceFirst(s, old, new) ==
    IF s = <<>> THEN <<>>
    ELSE IF Head(s) = old THEN new \o Tail(s)
    ELSE <<Head(s)>> \o ReplaceFirst(Tail(s), old, new)

\* strings.ReplaceAll for a one-character old: every occurrence, left to right
RECURSIVE ReplaceAll(_, _, _)
ReplaceAll(s, old, new) ==
    IF s = <<>> THEN <<>>
    ELSE (IF Head(s) = old THEN new ELSE <<Head(s)>>) \o ReplaceAll(Tail(s), old, new)

quoteIdent(name) ==
    LET escaped == ReplaceAll(name, DQ, <<DQ, DQ>>)
    IN <<DQ>> \o escaped \o <<DQ>>

\* two table names are about to be quoted
InitQuote ==
    /\ dbOpen = TRUE
    /\ columns = <<>>
    /\ rows = <<>>
    /\ seq = 0
    /\ clock = 0
    /\ issued = 0
    /\ eng = [e \in EngineIds |-> NoEngine]
    /\ ret = Ret("New", "q", TRUE, NilItem, EmptyAckId, 0)
    /\ tokUse = [t \in Tokens |-> 0]
    /\ ackOk = [t \in AckArgs |-> 0]
    /\ taken = {}
    /\ again = {}
    /\ panicked = FALSE
    /\ procs = <<>>
    /\ lock = 0
    /\ got = [i \in Ids |-> 0]
    /\ \E a, b \in Names :
          run = [phase |-> "names", name |-> a, other |-> b, out |-> <<>>,
                 otherOut |-> <<>>]

\* initTable quotes the names it puts into its SQL text
QuoteCall ==
    /\ run.phase = "names"
    /\ run' = [run EXCEPT !.phase = "quoted",
                          !.out = quoteIdent(run.name),
                          !.otherOut = quoteIdent(run.other)]
    /\ UNCHANGED <<dbOpen, columns, rows, seq, clock, issued, eng, ret, tokUse, ackOk,
                   taken, again, panicked, procs, lock, got>>

NextQuote == QuoteCall

SpecQuote == InitQuote /\ [][NextQuote]_vars

\* C1: after n Enqueue calls on an empty Queue and then n Dequeue calls, the i-th
\* Dequeue reported found = true and returned the payload of the i-th Enqueue.
C1_FifoOrder ==
    run.phase = "dequeue" =>
        \A i \in 1..Len(run.outs) : run.found[i] /\ run.outs[i] = run.ins[i]

\* C1 witness: a run of MaxRun items with two different payloads among them, some
\* enqueued at the same clock reading, has dequeued them all.
C1_Witness ==
    /\ run.phase = "dequeue"
    /\ run.n = MaxRun /\ Len(run.outs) = MaxRun
    /\ run.ins[1] # run.ins[2]
    /\ clock < MaxRun - 1

\* C3: with callers of Dequeue and DequeueWithAckId interleaved in every way and no
\* RequeueNoAckRows, no row is returned with found = true by more than one call.
C3_OneCallerPerRow == \A id \in Ids : got[id] <= 1

\* C3 witness: one caller has returned a row with found = true while another caller,
\* who selected the same row before that commit, is still in its transaction.
C3_Witness ==
    \E p \in ProcIds, id \in Ids :
        /\ got[id] = 1
        /\ procs[p].pc = "selected" /\ procs[p].id = id /\ procs[p].stale

\* what C8 says of every state of the producer/consumer run
C8_Safe ==
    /\ run.sentOk /\ run.ackedOk
    /\ Len(run.ackIDs) <= run.n
    /\ \A i \in 1..Len(run.ackIDs) : run.ackIDs[i] \in Tokens
    /\ \A i, j \in 1..Len(run.ackIDs) :
          i # j => run.ackIDs[i] # run.ackIDs[j] /\ run.ids[i] # run.ids[j]
    /\ run.phase = "done" =>
          /\ run.sent = run.n /\ Len(run.ackIDs) = run.n /\ run.acked = run.n
          /\ run.len = 0 /\ rows = <<>>

\* C8: a producer of n Enqueue calls runs against a consumer looping on
\* DequeueWithAckId: every Enqueue returns true, the consumer gets n successes with
\* pairwise distinct tokens of pairwise distinct rows, every Acknowledge of these
\* tokens returns true, and the run ends with Len = 0 and an empty table.
C8_ProducerConsumer == []C8_Safe /\ <>(run.phase = "done")

\* C8 witness: a run of MaxItems items is through, and on the way a
\* DequeueWithAckId of the consumer lost against an Enqueue and returned false.
C8_Witness == run.phase = "done" /\ run.n = MaxItems /\ run.missed

RowIds(rs) == {rs[i].id : i \in 1..Len(rs)}

RowOf(rs, id) == rs[CHOOSE i \in 1..Len(rs) : rs[i].id = id]

\* the rows RequeueNoAckRows is for: claimed and not acknowledged
Orphans(rs) == {i \in 1..Len(rs) : rs[i].status = "processing" /\ rs[i].ack = 0}

\* C2: whenever a PriorityQueue dequeue (plain or with ack id) succeeds, the row it
\* returns was pending, no pending row had a smaller priority value, and among the
\* pending rows of the same priority none was enqueued before it (ids are handed
\* out in enqueue order).
C2_PriorityOrder ==
    [][\A w \in BOOLEAN :
         (ret'.ok /\ ret'.op \in {"Dequeue", "DequeueWithAckId"}
             /\ PriorityDequeueInternal(w)) =>
            /\ ret'.id \in {rows[i].id : i \in PendingIdx(rows)}
            /\ ret'.data = RowOf(rows, ret'.id).data
            /\ \A j \in PendingIdx(rows) :
                 \/ RowOf(rows, ret'.id).priority < rows[j].priority
                 \/ /\ RowOf(rows, ret'.id).priority = rows[j].priority
                    /\ ret'.id <= rows[j].id]_vars

\* C2 witness: a dequeue with ack id returned a negative-priority row although a row
\* enqueued before it, of a larger priority value, was pending.
C2_Witness ==
    /\ ret.op = "DequeueWithAckId" /\ ret.ok
    /\ HasColumn("priority")
    /\ \E i, j \in 1..Len(rows) :
         /\ rows[i].id = ret.id /\ rows[i].priority < 0
         /\ rows[j].status = "pending" /\ rows[j].id < ret.id
         /\ rows[j].priority > rows[i].priority

\* C4: for every token, at most one Acknowledge(token) call ever returns true.
C4_AckAtMostOnce == \A t \in AckArgs : ackOk[t] <= 1

\* C5: Acknowledge with a token that no DequeueWithAckId ever returned (the empty
\* string included) returns false and leaves every row, and the row count, as it was.
C5_UnknownTokenNoEffect ==
    [][\A e \in EngineIds, t \in AckArgs :
         (ret'.op = "Acknowledge" /\ (t \in Tokens => tokUse[t] = 0)
             /\ Acknowledge(e, t)) =>
            (~ret'.ok /\ rows' = rows)]_vars

\* C5 witness: Acknowledge failed when no token had ever been issued, while the table
\* held a pending row with a NULL ack_id.
C5_Witness ==
    /\ ret.op = "Acknowledge" /\ ~ret.ok
    /\ issued = 0
    /\ \E i \in 1..Len(rows) : rows[i].status = "pending" /\ rows[i].ack_id = NullAckId

\* C6: when a row is claimed and not acknowledged, creating the engine again on the
\* same table (NewQueue or NewPriorityQueue) succeeds and leaves every such row
\* pending, hence counted by Len and selectable by the next dequeue.
C6_RestartRecovers ==
    [][\A o \in OptionLists :
         (/\ Orphans(rows) # {}
          /\ ret'.op \in {"NewQueue", "NewPriorityQueue"}
          /\ NewQueue(o, TRUE) \/ (eng["pq"].made /\ NewPriorityQueue(o, TRUE))) =>
            /\ ret'.ok
            /\ \A i \in Orphans(rows) : rows'[i].status = "pending"
            /\ LenOf(rows') = LenOf(rows) + Cardinality(Orphans(rows))]_vars

\* C7: without an option the handle removes on complete; a successful Acknowledge
\* through a removeOnComplete handle leaves no row of that item; through a
\* WithRemoveOnComplete(false) handle the row stays, completed with ack = 1, and Len
\* does not count it.
C7_Retention ==
    [][/\ (ret'.ok /\ ret'.op = "NewQueue" /\ NewQueue(<<>>, TRUE))
             => eng'["q"].removeOnComplete
       /\ (ret'.ok /\ ret'.op = "NewPriorityQueue" /\ NewPriorityQueue(<<>>, TRUE))
             => eng'["pq"].removeOnComplete
       /\ \A b \in BOOLEAN :
            /\ (ret'.ok /\ ret'.op = "NewQueue" /\ NewQueue(<<b>>, TRUE))
                  => eng'["q"].removeOnComplete = b
            /\ (ret'.ok /\ ret'.op = "NewPriorityQueue" /\ NewPriorityQueue(<<b>>, TRUE))
                  => eng'["pq"].removeOnComplete = b
       /\ \A e \in EngineIds, t \in AckArgs :
            (ret'.ok /\ ret'.op = "Acknowledge" /\ Acknowledge(e, t)) =>
               IF eng[e].removeOnComplete
               THEN /\ ret'.id \notin RowIds(rows')
                    /\ Len(rows') = Len(rows) - 1
               ELSE /\ ret'.id \in RowIds(rows')
                    /\ RowOf(rows', ret'.id).status = "completed"
                    /\ RowOf(rows', ret'.id).ack = 1
                    /\ Len(rows') = Len(rows)
                    /\ LenOf(rows') = Cardinality({i \in PendingIdx(rows) :
                                                     rows[i].id # ret'.id})]_vars

\* C7 witness: Acknowledge succeeded through a WithRemoveOnComplete(false) handle and
\* the row is in the table, completed.
C7_Witness ==
    /\ ret.op = "Acknowledge" /\ ret.ok
    /\ \E i \in 1..Len(rows) :
         rows[i].id = ret.id /\ rows[i].status = "completed" /\ rows[i].ack = 1

\* C9: every successful DequeueWithAckId returns a non-empty token that no earlier
\* successful DequeueWithAckId returned, an earlier claim of the same row included.
C9_FreshToken ==
    /\ \A t \in Tokens : tokUse[t] <= 1
    /\ (ret.op = "DequeueWithAckId" /\ ret.ok) => ret.ackID # EmptyAckId

\* C10: a row returned by plain Dequeue is not in the table any more, whatever its
\* status, and no later dequeue returns it, engine re-creation and requeue included.
C10_DequeueIsFinal ==
    /\ \A id \in taken : id \notin RowIds(rows)
    /\ again = {}
    /\ (ret.op = "Dequeue" /\ ret.ok) => ret.id \in taken

\* C10 witness: after a plain Dequeue took a row, the engine was created again
\* while another row was in processing, which the requeue turned pending.
C10_Witness ==
    /\ taken # {}
    /\ ret.op = "NewQueue" /\ ret.ok
    /\ \E i \in 1..Len(rows) : rows[i].status = "pending" /\ rows[i].ack_id # NullAckId

\* C11: Purge on an open connection leaves the table without any row, whatever the
\* statuses were, and the call right after it finds nothing: Dequeue and
\* DequeueWithAckId report not found, Acknowledge of any token returns false, Len is
\* 0 and Values is empty.
C11_PurgeEmpties ==
    [][/\ \A e \in EngineIds : (ret'.op = "Purge" /\ dbOpen /\ Purge(e)) => rows' = <<>>
       /\ (ret.op = "Purge" /\ ret.ok) =>
            /\ ret'.op \in {"Dequeue", "DequeueWithAckId", "Acknowledge"} => ~ret'.ok
            /\ ret'.op = "Len" => ret'.n = 0
            /\ ret'.op = "Values" => ret'.vals = <<>>]_vars

\* C11 witness: Purge has just emptied a table in which a token had been issued and
\* never acknowledged.
C11_Witness ==
    /\ ret.op = "Purge" /\ ret.ok
    /\ rows = <<>> /\ seq > 0
    /\ \E t \in Tokens : tokUse[t] >= 1 /\ ackOk[t] = 0

\* C12: when no row is pending (the table is empty or holds only processing and
\* completed rows) a Dequeue or DequeueWithAckId of either engine can be taken at
\* once, returns found = false with no payload and an empty token, and changes no row.
C12_NoPendingNotFound ==
    /\ []((\A i \in 1..Len(rows) : rows[i].status # "pending") =>
            \A w \in BOOLEAN :
               /\ eng["q"].made => ENABLED dequeueInternal(w)
               /\ eng["pq"].made => ENABLED PriorityDequeueInternal(w))
    /\ [][\A w \in BOOLEAN :
            (/\ ret'.op \in {"Dequeue", "DequeueWithAckId"}
             /\ \A i \in 1..Len(rows) : rows[i].status # "pending"
             /\ dequeueInternal(w) \/ PriorityDequeueInternal(w)) =>
                /\ ~ret'.ok /\ ret'.data = NilItem /\ ret'.ackID = EmptyAckId
                /\ rows' = rows]_vars

\* C12 witness: a dequeue returned not found on a table that holds a processing row
\* and a completed row.
C12_Witness ==
    /\ ret.op \in {"Dequeue", "DequeueWithAckId"} /\ ~ret.ok
    /\ \E i, j \in 1..Len(rows) :
         rows[i].status = "processing" /\ rows[j].status = "completed"

\* C15: Len returns the number of rows with status pending (processing and completed
\* rows are not counted); a successful Enqueue raises that number by exactly 1, a
\* successful Dequeue or DequeueWithAckId lowers it by exactly 1, and a successful
\* Acknowledge of a processing row leaves it unchanged.
C15_LenCountsPending ==
    [][/\ (ret'.op = "Len" /\ ret'.ok) =>
             ret'.n = Cardinality({i \in 1..Len(rows') : rows'[i].status = "pending"})
       /\ (ret'.op = "Enqueue" /\ ret'.ok) => LenOf(rows') = LenOf(rows) + 1
       /\ (ret'.op \in {"Dequeue", "DequeueWithAckId"} /\ ret'.ok) =>
             LenOf(rows') = LenOf(rows) - 1
       /\ (/\ ret'.op = "Acknowledge" /\ ret'.ok
           /\ \E i \in 1..Len(rows) :
                rows[i].id = ret'.id /\ rows[i].status = "processing") =>
             LenOf(rows') = LenOf(rows)]_vars

\* C15 witness: Len returned 1 on a table of two rows, the other one not pending.
C15_Witness ==
    /\ ret.op = "Len" /\ ret.ok /\ ret.n = 1
    /\ Len(rows) = 2

\* C17: NewPriorityQueue on a table that already has the priority column succeeds,
\* gives a usable handle, leaves the columns as they are and keeps every row with
\* its priority.
C17_PriorityQueueIdempotent ==
    [][\A o \in OptionLists :
         (/\ ret'.op = "NewPriorityQueue"
          /\ HasColumn("priority")
          /\ NewPriorityQueue(o, TRUE)) =>
            /\ ret'.ok
            /\ eng'["pq"].made /\ ~eng'["pq"].closed
            /\ columns' = columns
            /\ Len(rows') = Len(rows)
            /\ \A i \in 1..Len(rows) :
                 /\ rows'[i].id = rows[i].id
                 /\ rows'[i].priority = rows[i].priority]_vars

\* C19: every pending row has a NULL ack_id, after Enqueue and after a requeue alike,
\* so that a token issued before the requeue matches no row.
C19_PendingHasNoToken ==
    \A i \in 1..Len(rows) : rows[i].status = "pending" => rows[i].ack_id = NullAckId

\* C14: Values lists the payloads of exactly the pending rows, and the i-th Dequeue
\* of a run that follows returns found = true and the i-th payload of that list, for
\* a Queue and for a PriorityQueue.
C14_ValuesInDequeueOrder ==
    run.phase = "dequeue" =>
        /\ Len(run.vals) = Len(run.outs) + LenOf(rows)
        /\ \A i \in 1..Len(run.outs) : run.found[i] /\ run.outs[i] = run.vals[i]

\* C13: through a handle whose Close() was called, Enqueue returns false and Dequeue
\* and DequeueWithAckId return found = false, and the table is left as it was, also
\* when it holds pending rows; for a Queue and for a PriorityQueue.
C13_ClosedHandleFailsFast ==
    [][/\ (/\ ret'.op = "Enqueue" /\ eng["q"].closed
           /\ \E d \in Payloads, now \in 0..MaxClock : Enqueue(d, now)) =>
             ~ret'.ok /\ rows' = rows
       /\ (/\ ret'.op = "Enqueue" /\ eng["pq"].closed
           /\ \E d \in Payloads, p \in Priorities, now \in 0..MaxClock :
                 PriorityEnqueue(d, p, now)) =>
             ~ret'.ok /\ rows' = rows
       /\ \A w \in BOOLEAN :
            /\ (/\ ret'.op \in {"Dequeue", "DequeueWithAckId"} /\ eng["q"].closed
                /\ dequeueInternal(w)) =>
                  ~ret'.ok /\ rows' = rows
            /\ (/\ ret'.op \in {"Dequeue", "DequeueWithAckId"} /\ eng["pq"].closed
                /\ PriorityDequeueInternal(w)) =>
                  ~ret'.ok /\ rows' = rows]_vars

\* C13 witness: on an open connection, with a row pending, a dequeue returned not
\* found because both handles are closed.
C13_Witness ==
    /\ dbOpen
    /\ eng["q"].made /\ eng["q"].closed
    /\ eng["pq"].made /\ eng["pq"].closed
    /\ ret.op = "Dequeue" /\ ~ret.ok
    /\ \E i \in 1..Len(rows) : rows[i].status = "pending"

\* C16: a NewQueue or NewPriorityQueue that returns an error leaves the registry's
\* connection as open as it was.
C16_FailedSetupKeepsConnection ==
    [][(ret'.op \in {"NewQueue", "NewPriorityQueue"} /\ ~ret'.ok) => dbOpen' = dbOpen]_vars

\* C18: the call that follows the registry's Close() does not crash and changes no
\* row, and if it is an Enqueue, a Dequeue, a DequeueWithAckId or an Acknowledge it
\* returns failure.
C18_ClosedRegistryInoperable ==
    [][ret.op = "RegistryClose" =>
         /\ ~panicked'
         /\ rows' = rows
         /\ ret'.op \in {"Enqueue", "Dequeue", "DequeueWithAckId", "Acknowledge"} =>
               ~ret'.ok]_vars

\* C20: a call of Enqueue, Dequeue, DequeueWithAckId, Acknowledge, Purge or
\* RequeueNoAckRows whose transaction cannot begin (the connection is closed)
\* reports failure, does not crash and leaves every row as it was.
C20_FailedTransactionNoEffect ==
    [][(/\ ~dbOpen
        /\ ret'.op \in {"Enqueue", "Dequeue", "DequeueWithAckId", "Acknowledge",
                        "Purge", "RequeueNoAckRows"}) =>
          ~ret'.ok /\ rows' = rows /\ ~panicked']_vars

\* C21: a successful Acknowledge finalizes a row that was processing with ack = 0,
\* and leaves every row that was pending or completed exactly as it was.
C21_AckOnlyProcessing ==
    [][(ret'.op = "Acknowledge" /\ ret'.ok) =>
         /\ \E i \in 1..Len(rows) :
              rows[i].id = ret'.id /\ rows[i].status = "processing" /\ rows[i].ack = 0
         /\ \A i \in 1..Len(rows) :
              rows[i].status \in {"pending", "completed"} =>
                 \E j \in 1..Len(rows') : rows'[j] = rows[i]]_vars

\* C22: a completed row stays in the table, completed, through every call but Purge,
\* and no dequeue returns it.
C22_CompletedIsTerminal ==
    [][\A i \in 1..Len(rows) :
         rows[i].status = "completed" =>
            /\ ret'.op # "Purge" =>
                 \E j \in 1..Len(rows') :
                    rows'[j].id = rows[i].id /\ rows'[j].status = "completed"
            /\ (ret'.op \in {"Dequeue", "DequeueWithAckId"} /\ ret'.ok) =>
                 ret'.id # rows[i].id]_vars

\* C23: every row has one of the three statuses, ack = 1 exactly when it is completed,
\* a processing row carries a token, and a row becomes completed only through an
\* engine created with removeOnComplete = false.
C23_RowInvariants ==
    /\ [](\A i \in 1..Len(rows) :
            /\ rows[i].status \in {"pending", "processing", "completed"}
            /\ (rows[i].ack = 1) <=> (rows[i].status = "completed")
            /\ rows[i].ack \in {0, 1}
            /\ rows[i].status = "processing" => rows[i].ack_id \in Tokens)
    /\ [][(\E j \in 1..Len(rows') :
              /\ rows'[j].status = "completed"
              /\ \A i \in 1..Len(rows) :
                    rows[i].id = rows'[j].id => rows[i].status # "completed")
          => \E e \in EngineIds : eng[e].made /\ ~eng[e].removeOnComplete]_vars

C23_Witness ==
    /\ \E i \in 1..Len(rows) : rows[i].status = "completed" /\ rows[i].ack = 1
    /\ \E i \in 1..Len(rows) : rows[i].status = "processing" /\ rows[i].ack_id \in Tokens
    /\ \E e \in EngineIds : eng[e].made /\ eng[e].removeOnComplete

\* C24: no two rows carry the same non-null token, and a successful Acknowledge
\* finds exactly one row with the token it was given.
C24_TokenUnique ==
    /\ [](\A i, j \in 1..Len(rows) :
            (i # j /\ rows[i].ack_id # NullAckId) => rows[i].ack_id # rows[j].ack_id)
    /\ [][(ret'.op = "Acknowledge" /\ ret'.ok) =>
            /\ Cardinality({i \in 1..Len(rows) : rows[i].ack_id = ret'.ackID}) = 1
            /\ Len(rows') >= Len(rows) - 1
            /\ Cardinality({i \in 1..Len(rows) :
                   \A j \in 1..Len(rows') : rows'[j] # rows[i]}) <= 1]_vars

C24_Witness ==
    /\ ret.op = "Acknowledge" /\ ret.ok
    /\ \E i, j \in 1..Len(rows) :
          /\ i # j
          /\ rows[i].ack_id \in Tokens /\ rows[j].ack_id \in Tokens
          /\ rows[i].ack_id # rows[j].ack_id

\* C25: RequeueNoAckRows, and NewQueue on an existing table, turn exactly the rows
\* that are processing with ack = 0 into pending and keep every other row, every
\* payload, priority and creation time and the number of rows; a second run
\* changes nothing more.
C25_RequeueFrame ==
    [][(/\ ret'.op \in {"RequeueNoAckRows", "NewQueue"}
        /\ ret'.ok
        /\ columns # <<>>)
       =>
        /\ Len(rows') = Len(rows)
        /\ \A i \in 1..Len(rows) :
              /\ rows'[i].id = rows[i].id
              /\ rows'[i].data = rows[i].data
              /\ rows'[i].created_at = rows[i].created_at
              /\ rows'[i].ack = rows[i].ack
              /\ DOMAIN rows'[i] = DOMAIN rows[i]
              /\ HasColumn("priority") => rows'[i].priority = rows[i].priority
              /\ rows'[i].status =
                   IF rows[i].status = "processing" /\ rows[i].ack = 0
                   THEN "pending" ELSE rows[i].status
        /\ \A i \in 1..Len(rows') :
              ~(rows'[i].status = "processing" /\ rows'[i].ack = 0)]_vars

C25_Witness ==
    /\ ret.op = "NewQueue" /\ ret.ok
    /\ \E i \in 1..Len(rows) : rows[i].status = "pending" /\ rows[i].ack_id \in Tokens
    /\ \E i \in 1..Len(rows) : rows[i].status = "completed"

\* C26: a requeued item (pending, still carrying the token of its earlier claim)
\* keeps its place: no dequeue of either engine returns a row while a requeued row
\* of the same priority that was enqueued before that row is pending, and the
\* recovery pass leaves created_at as it was.
C26_RequeueKeepsPlace ==
    /\ [][(ret'.ok /\ ret'.op \in {"Dequeue", "DequeueWithAckId"}) =>
            \A j \in PendingIdx(rows) :
               (/\ rows[j].ack_id \in Tokens
                /\ rows[j].id < ret'.id
                /\ HasColumn("priority") =>
                      rows[j].priority = RowOf(rows, ret'.id).priority)
               => FALSE]_vars
    /\ [][(ret'.op \in {"RequeueNoAckRows", "NewQueue", "NewPriorityQueue"}) =>
            \A i \in 1..Len(rows) :
               \E j \in 1..Len(rows') :
                  rows'[j].id = rows[i].id /\ rows'[j].created_at = rows[i].created_at]_vars

\* C26 witness: the item that was claimed, requeued and claimed a second time (the
\* Queue engine hands out its token again) came back although an item enqueued
\* after it was pending.
C26_Witness ==
    /\ ret.op = "DequeueWithAckId" /\ ret.ok
    /\ tokUse[ret.ackID] = 2
    /\ \E i, j \in 1..Len(rows) :
          /\ rows[i].id = ret.id /\ rows[i].status = "processing"
          /\ rows[j].id > ret.id /\ rows[j].status = "pending"
          /\ rows[j].created_at > rows[i].created_at

C28_NoClaimTimeout ==
    /\ [][\A i \in 1..Len(rows) :
            rows[i].status = "processing" =>
               /\ (ret'.op \in {"Dequeue", "DequeueWithAckId"} /\ ret'.ok)
                     => ret'.id # rows[i].id
               /\ ret'.op \notin {"Acknowledge", "RequeueNoAckRows", "NewQueue",
                                  "NewPriorityQueue", "Purge"}
                     => \E j \in 1..Len(rows') : rows'[j] = rows[i]]_vars
    /\ [][(ret'.op = "Len" /\ ret'.ok) =>
            ret'.n = Cardinality({i \in 1..Len(rows) : rows[i].status = "pending"})]_vars
    /\ [][(ret'.op = "Values" /\ ret'.ok) =>
            Len(ret'.vals) =
               Cardinality({i \in 1..Len(rows) : rows[i].status = "pending"})]_vars

\* C28 witness: Values has just listed one payload while the table holds a pending
\* row and a row that is still processing.
C28_Witness ==
    /\ ret.op = "Values" /\ ret.ok /\ Len(ret.vals) = 1
    /\ \E i \in 1..Len(rows) : rows[i].status = "processing"
    /\ \E i \in 1..Len(rows) : rows[i].status = "pending"

\* C29: however often an item has been claimed, a restart (NewQueue) makes it
\* pending again, and DequeueWithAckId returns an item that was claimed before
\* when it is the oldest pending one: the number of deliveries of one item has no limit in the code (the
\* scenario stops counting at MaxDeliver).
C29_RedeliveryUnbounded ==
    /\ \A i \in 1..Len(rows) :
          (rows[i].status = "processing" /\ rows[i].ack = 0) =>
             ENABLED (/\ \E o \in OptionLists : RedeliverNewQueue(o)
                      /\ ret'.ok
                      /\ rows'[i].status = "pending")
    /\ \A i \in 1..Len(rows) :
          (/\ eng["q"].made
           /\ rows[i].status = "pending"
           /\ \A j \in PendingIdx(rows) : rows[i].id <= rows[j].id
           /\ rows[i].ack_id \in Tokens
           /\ \A j \in PendingIdx(rows) : run.count[rows[j].id] < MaxDeliver) =>
             ENABLED (/\ RedeliverClaim
                      /\ ret'.ok
                      /\ ret'.id = rows[i].id
                      /\ run'.count[rows[i].id] = run.count[rows[i].id] + 1)

\* C29 witness: DequeueWithAckId has just returned the same item for the
\* MaxDeliver-th time, and no Acknowledge was ever called.
C29_Witness ==
    /\ run.phase = "redeliver"
    /\ ret.op = "DequeueWithAckId" /\ ret.ok
    /\ run.count[ret.id] = MaxDeliver
    /\ \A t \in AckArgs : ackOk[t] = 0

\* C30 as stated: NewPriorityQueue on a table that NewQueue created, without a
\* priority column, succeeds, and every row gets priority 0 and keeps its payload
\* and its status.
C30_MigrationKeepsStatus ==
    [][(ret'.op = "NewPriorityQueue" /\ columns = BaseColumns) =>
         /\ ret'.ok
         /\ Len(rows') = Len(rows)
         /\ \A i \in 1..Len(rows) :
               /\ rows'[i].priority = 0
               /\ rows'[i].id = rows[i].id
               /\ rows'[i].data = rows[i].data
               /\ rows'[i].status = rows[i].status]_vars

\* C30, amended: NewPriorityQueue on a table that NewQueue created, without a
\* priority column, succeeds; every row gets priority 0 and keeps its payload, its
\* creation time and its status, except that a row which was processing with
\* ack = 0 is pending afterwards (the constructor's recovery pass); and a
\* PriorityQueue dequeue takes the priority-0 rows after every pending row of
\* negative priority, before every pending row of positive priority, and among
\* themselves in insertion order.
C30_Migration ==
    /\ [][(ret'.op = "NewPriorityQueue" /\ columns = BaseColumns) =>
            /\ ret'.ok
            /\ HasColumn("priority")'
            /\ Len(rows') = Len(rows)
            /\ \A i \in 1..Len(rows) :
                  /\ rows'[i].priority = 0
                  /\ rows'[i].id = rows[i].id
                  /\ rows'[i].data = rows[i].data
                  /\ rows'[i].created_at = rows[i].created_at
                  /\ rows'[i].status =
                       IF rows[i].status = "processing" /\ rows[i].ack = 0
                       THEN "pending" ELSE rows[i].status]_vars
    /\ [][\A w \in BOOLEAN :
            (/\ ret'.ok /\ ret'.op \in {"Dequeue", "DequeueWithAckId"}
             /\ HasColumn("priority")
             /\ PriorityDequeueInternal(w)) =>
               \A i, j \in 1..Len(rows) :
                  (/\ rows[i].id = ret'.id /\ rows[j].status = "pending" /\ i # j
                   /\ 0 \in {rows[i].priority, rows[j].priority}) =>
                     \/ rows[i].priority < rows[j].priority
                     \/ rows[i].priority = rows[j].priority /\ rows[i].id < rows[j].id]_vars

\* C30 witness: after the migration of a table that held two rows, one of them
\* requeued, a PriorityQueue dequeue has returned the older of the two priority-0
\* rows and the younger one is pending.
C30_Witness ==
    /\ HasColumn("priority")
    /\ eng["q"].made /\ eng["pq"].made
    /\ ret.op = "DequeueWithAckId" /\ ret.ok
    /\ issued = MaxToken
    /\ \E i, j \in 1..Len(rows) :
          /\ rows[i].id = ret.id /\ rows[i].priority = 0 /\ rows[i].status = "processing"
          /\ rows[j].id > ret.id /\ rows[j].priority = 0 /\ rows[j].status = "pending"

\* C31: an Enqueue that returns true appends exactly one row, pending, with ack = 0,
\* a NULL ack_id, a new id, the payload that was given and (PriorityQueue) the
\* priority that was given, and leaves every other row as it was; an Enqueue that
\* returns false leaves the table as it was.
C31_EnqueueFrame ==
    /\ [][ret'.op = "Enqueue" =>
            IF ret'.ok
            THEN /\ Len(rows') = Len(rows) + 1
                 /\ \A i \in 1..Len(rows) : rows'[i] = rows[i]
                 /\ rows'[Len(rows')].status = "pending"
                 /\ rows'[Len(rows')].ack = 0
                 /\ rows'[Len(rows')].ack_id = NullAckId
                 /\ rows'[Len(rows')].data = ret'.data
                 /\ rows'[Len(rows')].id \notin RowIds(rows)
            ELSE rows' = rows]_vars
    /\ [][\A d \in Payloads, now \in 0..MaxClock :
            /\ (ret'.op = "Enqueue" /\ ret'.ok /\ Enqueue(d, now)) =>
                  rows'[Len(rows')].data = d
            /\ \A p \in Priorities :
                  (ret'.op = "Enqueue" /\ ret'.ok /\ PriorityEnqueue(d, p, now)) =>
                     /\ rows'[Len(rows')].data = d
                     /\ rows'[Len(rows')].priority = p]_vars

\* C31 witness: an Enqueue with a negative priority has just succeeded next to a
\* row that is processing.
C31_Witness ==
    /\ ret.op = "Enqueue" /\ ret.ok
    /\ HasColumn("priority")
    /\ Len(rows) = 2
    /\ rows[1].status = "processing"
    /\ rows[2].status = "pending" /\ rows[2].priority < 0 /\ rows[2].id = ret.id

\* C32: in the producer/consumer run, under fair scheduling, every row that an
\* Enqueue has committed is eventually returned to the consumer by one of its
\* DequeueWithAckId calls, and the consumer's loop ends: it has its n successes
\* after the producer's n successful Enqueue calls.
C32_ConsumerTerminates ==
    /\ \A id \in Ids :
          (id \in RowIds(rows)) ~> (\E k \in 1..Len(run.ids) : run.ids[k] = id)
    /\ <>(run.sent = run.n /\ run.sentOk /\ Len(run.ackIDs) = run.n)

\* C32 witness: the consumer has its MaxItems successes while the goroutines are
\* not joined yet, and one of its calls had returned found = false on the way.
C32_Witness ==
    /\ run.phase = "race"
    /\ run.n = MaxItems
    /\ Len(run.ids) = MaxItems
    /\ run.missed

\* C33: a Queue DequeueWithAckId of a pending row that carries a token returns that
\* token; and of the Acknowledge calls made with a token that two claims have
\* handed out, only the first returns true.
C33_SharedTokenOneAck ==
    /\ [][(ret'.op = "DequeueWithAckId" /\ ret'.ok /\ dequeueInternal(TRUE)) =>
            (RowOf(rows, ret'.id).ack_id \in Tokens =>
                ret'.ackID = RowOf(rows, ret'.id).ack_id)]_vars
    /\ [](\A t \in Tokens : tokUse[t] >= 2 => ackOk[t] <= 1)

\* C34: a PriorityQueue DequeueWithAckId always stores and returns a token that was
\* never handed out before, in place of whatever token the row carried; so an
\* Acknowledge with a token that no row carries any more (the token of an earlier
\* claim of a requeued, re-claimed item) returns false and changes nothing, and an
\* Acknowledge with the token a row carries returns true.
C34_PriorityTokenOverwritten ==
    /\ [][(ret'.op = "DequeueWithAckId" /\ ret'.ok /\ PriorityDequeueInternal(TRUE)) =>
            /\ ret'.ackID = issued + 1
            /\ tokUse[ret'.ackID] = 0
            /\ \A i \in 1..Len(rows) : rows[i].ack_id # ret'.ackID
            /\ RowOf(rows', ret'.id).ack_id = ret'.ackID]_vars
    /\ [][\A e \in EngineIds, t \in Tokens :
            (ret'.op = "Acknowledge" /\ Acknowledge(e, t)) =>
               IF \E i \in 1..Len(rows) : rows[i].ack_id = t
               THEN ret'.ok /\ ret'.ackID = t
               ELSE ~ret'.ok /\ rows' = rows]_vars

\* C34 witness: the only item ever enqueued was claimed twice through the
\* PriorityQueue, with token 1 and then, after a requeue, with token 2; the row
\* carries token 2, and an Acknowledge (of token 1) has just returned false.
C34_Witness ==
    /\ eng["pq"].made /\ ~eng["q"].made
    /\ seq = 1 /\ Len(rows) = 1
    /\ tokUse[1] = 1 /\ tokUse[2] = 1
    /\ rows[1].status = "processing" /\ rows[1].ack_id = 2
    /\ ret.op = "Acknowledge" /\ ~ret.ok
    /\ \A t \in AckArgs : t # 1 => ackOk[t] = 0

\* C35: NewQueue or NewPriorityQueue on the table's name, called while an engine
\* handle of that table is open and rows claimed through it are processing, makes
\* every such row pending again: nothing in the pass asks whether the claimant is
\* still running.
C35_RecoveryHitsLiveClaims ==
    [][(/\ ret'.op \in {"NewQueue", "NewPriorityQueue"}
        /\ \E e \in EngineIds : eng[e].made /\ ~eng[e].closed) =>
          /\ Len(rows') = Len(rows)
          /\ \A i \in Orphans(rows) :
                rows'[i].id = rows[i].id /\ rows'[i].status = "pending"]_vars

\* C35 witness: with both handles open and no Acknowledge made, the only item ever
\* enqueued has been handed to a consumer under token 1 and, after the other
\* engine was created, to a consumer under token 2.
C35_Witness ==
    /\ eng["q"].made /\ ~eng["q"].closed
    /\ eng["pq"].made /\ ~eng["pq"].closed
    /\ seq = 1 /\ Len(rows) = 1
    /\ tokUse[1] = 1 /\ tokUse[2] = 1
    /\ rows[1].status = "processing"
    /\ ret.op = "DequeueWithAckId" /\ ret.ok
    /\ \A t \in AckArgs : ackOk[t] = 0

C37_NoSilentLoss ==
    [][/\ \A i \in 1..Len(rows) :
            (\A j \in 1..Len(rows') : rows'[j].id # rows[i].id) =>
               \/ /\ ret'.op = "Dequeue" /\ ret'.ok
                  /\ ret'.id = rows[i].id /\ ret'.data = rows[i].data
               \/ /\ ret'.op = "Acknowledge" /\ ret'.ok
                  /\ ret'.ackID \in Tokens
                  /\ rows[i].ack_id = ret'.ackID
                  /\ tokUse[ret'.ackID] >= 1
               \/ ret'.op = "Purge" /\ ret'.ok
       /\ (ret'.op \in {"Dequeue", "DequeueWithAckId"} /\ ~ret'.ok) => rows' = rows]_vars

\* C37 witness: an Acknowledge has just returned true and removed the row it names,
\* whose token a DequeueWithAckId had handed out; another row is still there.
C37_Witness ==
    /\ ret.op = "Acknowledge" /\ ret.ok
    /\ tokUse[ret.ackID] >= 1
    /\ Len(rows) = 1
    /\ rows[1].id # ret.id
    /\ seq = 2

\* C38: as long as a row is in the table its payload, its priority and its
\* created_at are what they were; a successful DequeueWithAckId changes only the
\* status and the ack_id of the row it returns, a successful Acknowledge that keeps
\* the row changes only its status and ack, RequeueNoAckRows changes only statuses.
C38_PayloadPriorityTimeFixed ==
    /\ [][\A i \in 1..Len(rows), j \in 1..Len(rows') :
            rows'[j].id = rows[i].id =>
               /\ rows'[j].data = rows[i].data
               /\ rows'[j].created_at = rows[i].created_at
               /\ (HasColumn("priority") => rows'[j].priority = rows[i].priority)]_vars
    /\ [][\A i \in 1..Len(rows), j \in 1..Len(rows') :
            rows'[j].id = rows[i].id =>
               /\ (ret'.op = "DequeueWithAckId" /\ ret'.ok) =>
                     IF rows[i].id = ret'.id
                     THEN [rows'[j] EXCEPT !.status = rows[i].status,
                                           !.ack_id = rows[i].ack_id] = rows[i]
                     ELSE rows'[j] = rows[i]
               /\ (ret'.op = "Acknowledge" /\ ret'.ok) =>
                     IF rows[i].id = ret'.id
                     THEN [rows'[j] EXCEPT !.status = rows[i].status,
                                           !.ack = rows[i].ack] = rows[i]
                     ELSE rows'[j] = rows[i]
               /\ ret'.op = "RequeueNoAckRows" =>
                     [rows'[j] EXCEPT !.status = rows[i].status] = rows[i]]_vars

\* C38 witness: the only row, enqueued with a non-zero priority, has been claimed,
\* requeued, claimed again and acknowledged with retention, and it still has its
\* priority and its created_at.
C38_Witness ==
    /\ HasColumn("priority")
    /\ ret.op = "Acknowledge" /\ ret.ok
    /\ \E i \in 1..Len(rows) :
          /\ rows[i].id = ret.id /\ rows[i].status = "completed"
          /\ rows[i].priority # 0 /\ rows[i].created_at = 0
          /\ tokUse[1] >= 1 /\ tokUse[2] >= 1 /\ seq = 1

\* removing the outer quotes of a quoted name
Unwrap(s) == SubSeq(s, 2, Len(s) - 1)

\* reading two quotes as one, left to right
RECURSIVE Undouble(_)
Undouble(s) ==
    IF s = <<>> THEN <<>>
    ELSE IF Head(s) = DQ /\ Len(s) >= 2 /\ s[2] = DQ
         THEN <<DQ>> \o Undouble(SubSeq(s, 3, Len(s)))
         ELSE <<Head(s)>> \o Undouble(Tail(s))

\* every quote of s has its partner next to it, reading left to right
RECURSIVE AllPaired(_)
AllPaired(s) ==
    IF s = <<>> THEN TRUE
    ELSE IF Head(s) = DQ
         THEN Len(s) >= 2 /\ s[2] = DQ /\ AllPaired(SubSeq(s, 3, Len(s)))
         ELSE AllPaired(Tail(s))

\* C39: quoteIdent(name) is the name between two double quotes with each of its
\* double quotes doubled: two more characters than the name plus one per quote,
\* quotes paired off everywhere between the first and the last character, the
\* name back when the outer quotes are removed and the inner ones un-doubled, and
\* different names give different results.
C39_QuoteIdent ==
    run.phase = "quoted" =>
        /\ Len(run.out) =
              Len(run.name) + 2 + Cardinality({i \in 1..Len(run.name) : run.name[i] = DQ})
        /\ run.out[1] = DQ /\ run.out[Len(run.out)] = DQ
        /\ AllPaired(Unwrap(run.out))
        /\ Undouble(Unwrap(run.out)) = run.name
        /\ run.name # run.other => run.out # run.otherOut

\* C39 witness: a name with two quotes in a row and another character, quoted,
\* next to a different name that differs from it by one quote only.
C39_Witness ==
    /\ run.phase = "quoted"
    /\ run.name = <<DQ, DQ, "a">>
    /\ run.other = <<DQ, "a">>
    /\ Len(run.out) = 7

====
